---- MODULE Spec2Model ----
(***************************************************************************)
(* A model of the static site generator's markdown pipeline.               *)
(*                                                                         *)
(* A Python str is a sequence of one-character strings.  A function that   *)
(* may raise returns a record: Return(v) or Raise(message).  An optional   *)
(* value (None or a value) is a record: None or Some(v).                   *)
(***************************************************************************)
EXTENDS Integers, Sequences, FiniteSets, TLC

\* op        the function that has been applied ("start" before it is)
\* arg       the string the function is applied to
\* ret       what the function returned or raised
\* template_text  the text of the file at template_path
\* dest      the text of the file at dest_path, None while it does not exist
\* fs        the file system copy_directory works on: the set of its entries
\* calls     the stack of the calls of recursive_copy that have not returned
VARIABLES op, arg, ret, template_text, dest, fs, calls

vars == <<op, arg, ret, template_text, dest, fs, calls>>

(***************************************************************************)
(* Bounds of the model.                                                    *)
(***************************************************************************)
MaxDocLen == 6
MaxBlockLen == 4
MaxTextLen == 5
MaxPageLen == 5

(***************************************************************************)
(* Values.                                                                 *)
(***************************************************************************)
None == [some |-> FALSE, v |-> <<>>]
Some(x) == [some |-> TRUE, v |-> x]

Return(x) == [ok |-> TRUE, val |-> x, err |-> ""]
Raise(e) == [ok |-> FALSE, val |-> <<>>, err |-> e]

\* All strings over alphabet A of length at most n.
StrSet(A, n) == UNION {[1..k -> A] : k \in 0..n}

(***************************************************************************)
(* Python str methods.                                                     *)
(***************************************************************************)
\* The characters str.strip(), str.split() and the regex class \s remove or
\* match.
Whitespace == {" ", "\t", "\n", "\r", "\f"}

\* The characters the regex class \d matches.
Digits == {"0", "1", "2", "3", "4", "5", "6", "7", "8", "9"}

StartsWith(s, p) == Len(s) >= Len(p) /\ SubSeq(s, 1, Len(p)) = p

EndsWith(s, p) == Len(s) >= Len(p) /\ SubSeq(s, Len(s) - Len(p) + 1, Len(s)) = p

\* s[n:]
DropFirst(s, n) == SubSeq(s, n + 1, Len(s))

\* str.find, 1-based: the least position at or after from where sub occurs
\* in s, 0 when there is none.
Find(s, sub, from) ==
    LET hits == {i \in from..(Len(s) - Len(sub) + 1) : SubSeq(s, i, i + Len(sub) - 1) = sub}
    IN  IF hits = {} THEN 0 ELSE CHOOSE i \in hits : \A j \in hits : i <= j

\* str.split(sep): the pieces between the non-overlapping occurrences of sep,
\* found left to right.
RECURSIVE Split(_, _)
Split(s, sep) ==
    LET i == Find(s, sep, 1)
    IN  IF i = 0 THEN <<s>>
        ELSE <<SubSeq(s, 1, i - 1)>> \o Split(DropFirst(s, i + Len(sep) - 1), sep)

\* SplitOnce without the limit: str.split(sep), a split at every occurrence.
SplitEvery(s, sep) == Split(s, sep)

\* str.split(sep, 1): at most one split, at the first occurrence of sep.
SplitOnce(s, sep) ==
    LET i == Find(s, sep, 1)
    IN  IF i = 0 THEN <<s>>
        ELSE <<SubSeq(s, 1, i - 1), DropFirst(s, i + Len(sep) - 1)>>

RECURSIVE LStrip(_)
LStrip(s) == IF s # <<>> /\ s[1] \in Whitespace THEN LStrip(Tail(s)) ELSE s

RECURSIVE RStrip(_)
RStrip(s) ==
    IF s # <<>> /\ s[Len(s)] \in Whitespace THEN RStrip(SubSeq(s, 1, Len(s) - 1)) ELSE s

\* str.strip()
Strip(s) == RStrip(LStrip(s))

\* The first word of s.split(): s.split() without a separator yields the
\* maximal runs of non-whitespace characters.
RECURSIVE TakeWord(_)
TakeWord(s) ==
    IF s = <<>> \/ s[1] \in Whitespace THEN <<>> ELSE <<s[1]>> \o TakeWord(Tail(s))

RECURSIVE SplitWords(_)
SplitWords(s) ==
    LET t == LStrip(s)
        w == TakeWord(t)
    IN  IF t = <<>> THEN <<>> ELSE <<w>> \o SplitWords(DropFirst(t, Len(w)))

\* sep.join(list)
RECURSIVE Join(_, _)
Join(sep, list) ==
    IF list = <<>> THEN <<>>
    ELSE IF Len(list) = 1 THEN list[1]
    ELSE list[1] \o sep \o Join(sep, Tail(list))

\* list.remove(x): delete the first element equal to x.
ListRemove(list, x) ==
    LET i == CHOOSE k \in 1..Len(list) : list[k] = x /\ \A j \in 1..(k - 1) : list[j] # x
    IN  SubSeq(list, 1, i - 1) \o SubSeq(list, i + 1, Len(list))

(***************************************************************************)
(* markdown_blocks.py: the block splitter.                                 *)
(***************************************************************************)
\* The for loop of markdown_to_blocks.  The loop iterates over the list it
\* removes from: the iterator holds a position, i counts the elements it has
\* handed out, and the loop ends when i reaches the current length.  The
\* assignment block = block.strip() rebinds the loop variable only; the list
\* keeps the unstripped string.
RECURSIVE blocks_loop(_, _)
blocks_loop(blocks, i) ==
    IF i >= Len(blocks) THEN blocks
    ELSE LET block == blocks[i + 1]
             removed == IF block = <<>> THEN ListRemove(blocks, block) ELSE blocks
             stripped == Strip(block)
         IN  blocks_loop(removed, i + 1)

markdown_to_blocks(markdown) == blocks_loop(Split(markdown, <<"\n", "\n">>), 0)

(***************************************************************************)
(* markdown_blocks.py: the block classifier.                               *)
(***************************************************************************)
\* Python objects that block_to_block_type returns and block_to_html_node
\* matches on: a str, a member of the BlockType enum, or None.  Python's ==
\* between two of them is equality of these records: an Enum member is not a
\* str and never equals its own value.
StrObj(s) == [type |-> "str", repr |-> s]

NoneObj == [type |-> "NoneType", repr |-> "None"]

BlockType ==
    [HEADING |-> [type |-> "BlockType", repr |-> "heading"],
     CODE |-> [type |-> "BlockType", repr |-> "code"],
     PARAGRAPH |-> [type |-> "BlockType", repr |-> "paragraph"],
     QUOTE |-> [type |-> "BlockType", repr |-> "quote"],
     UNORDERED_LIST |-> [type |-> "BlockType", repr |-> "unordered_list"],
     ORDERED_LIST |-> [type |-> "BlockType", repr |-> "ordered_list"]]

\* member.value
EnumValue(member) == StrObj(member.repr)

\* all(f(line) for line in lines) over a generator: the lines are evaluated
\* in order and the first one that is not true decides, by being false or by
\* raising.  outcomes[i] is "true", "false" or the name of the exception.
AllOf(outcomes) ==
    LET bad == {i \in 1..Len(outcomes) : outcomes[i] # "true"}
    IN  IF bad = {} THEN "true"
        ELSE outcomes[CHOOSE i \in bad : \A j \in bad : i <= j]

\* 1 <= len(line.split()[0]) <= 6 and line[0] == "#"
heading_line(line) ==
    LET words == SplitWords(line)
    IN  IF words = <<>> THEN "IndexError"
        ELSE IF 1 <= Len(words[1]) /\ Len(words[1]) <= 6 /\ line[1] = "#" THEN "true"
        ELSE "false"

\* line.startswith(">")
quote_line(line) == IF StartsWith(line, <<">">>) THEN "true" ELSE "false"

\* line.startswith(("*", "-")) and line[1] == " "
unordered_line(line) ==
    IF ~(StartsWith(line, <<"*">>) \/ StartsWith(line, <<"-">>)) THEN "false"
    ELSE IF Len(line) < 2 THEN "IndexError"
    ELSE IF line[2] = " " THEN "true"
    ELSE "false"

\* re.match(r"^\d\.\s", line)
ordered_match(line) ==
    Len(line) >= 3 /\ line[1] \in Digits /\ line[2] = "." /\ line[3] \in Whitespace

ordered_line(line) == IF ordered_match(line) THEN "true" ELSE "false"

\* re.match(r"^[\*\-]\s", line)
unordered_match(line) ==
    Len(line) >= 2 /\ line[1] \in {"*", "-"} /\ line[2] \in Whitespace

\* The backtick character U+0060.  The TLA+ lexer rejects it inside a string,
\* so the apostrophe, which the program treats as an ordinary character,
\* stands for it.
Backtick == "'"

Backticks == <<Backtick, Backtick, Backtick>>

block_to_block_type(block) ==
    LET lines == Split(block, <<"\n">>)
        headings == AllOf([i \in 1..Len(lines) |-> heading_line(lines[i])])
        quotes == AllOf([i \in 1..Len(lines) |-> quote_line(lines[i])])
        unordered == AllOf([i \in 1..Len(lines) |-> unordered_line(lines[i])])
        ordered == AllOf([i \in 1..Len(lines) |-> ordered_line(lines[i])])
    IN  IF StartsWith(block, <<"#">>)
        THEN IF headings = "true" THEN Return(EnumValue(BlockType.HEADING))
             ELSE IF headings = "false" THEN Return(NoneObj)
             ELSE Raise(headings)
        ELSE IF StartsWith(block, Backticks) /\ EndsWith(block, Backticks)
        THEN Return(EnumValue(BlockType.CODE))
        ELSE IF quotes = "true" THEN Return(EnumValue(BlockType.QUOTE))
        ELSE IF unordered = "true" THEN Return(EnumValue(BlockType.UNORDERED_LIST))
        ELSE IF unordered # "false" THEN Raise(unordered)
        ELSE IF ordered = "true" THEN Return(EnumValue(BlockType.ORDERED_LIST))
        ELSE Return(EnumValue(BlockType.PARAGRAPH))

(***************************************************************************)
(* textnode.py: inline nodes.                                              *)
(***************************************************************************)
\* The members of the TextType enum.  As with BlockType, a member equals
\* itself only: neither its value nor None.
TextType ==
    [TEXT |-> [type |-> "TextType", repr |-> "text"],
     BOLD |-> [type |-> "TextType", repr |-> "bold"],
     ITALIC |-> [type |-> "TextType", repr |-> "italic"],
     CODE |-> [type |-> "TextType", repr |-> "code"],
     LINK |-> [type |-> "TextType", repr |-> "link"],
     IMAGE |-> [type |-> "TextType", repr |-> "image"]]

\* TextNode(text, text_type, url=None)
TextNode(text, text_type, url) == [text |-> text, text_type |-> text_type, url |-> url]

(***************************************************************************)
(* inline_markdown.py: the inline lexer.                                   *)
(***************************************************************************)
NotClosed == "Invalid markdown, formatted section not closed"

ImageNotClosed == "Invalid markdown, image section not closed"

LinkNotClosed == "Invalid markdown, link section not closed"

\* delimiter_sections with the loop one short: range(len(sections) - 1), the
\* text after the last delimiter is lost.
RECURSIVE delimiter_sections_short(_, _, _)
delimiter_sections_short(sections, i, text_type) ==
    IF i >= Len(sections) - 1 THEN <<>>
    ELSE LET section == sections[i + 1]
             rest == delimiter_sections_short(sections, i + 1, text_type)
         IN  IF section = <<>> THEN rest
             ELSE IF i % 2 = 0 THEN <<TextNode(section, TextType.TEXT, None)>> \o rest
             ELSE <<TextNode(section, text_type, None)>> \o rest

\* The inner loop of split_nodes_delimiter: the nodes made of sections[i..],
\* where i is the 0-based index of the code.
RECURSIVE delimiter_sections(_, _, _)
delimiter_sections(sections, i, text_type) ==
    IF i >= Len(sections) THEN <<>>
    ELSE LET section == sections[i + 1]
             rest == delimiter_sections(sections, i + 1, text_type)
         IN  IF section = <<>> THEN rest
             ELSE IF i % 2 = 0 THEN <<TextNode(section, TextType.TEXT, None)>> \o rest
             ELSE <<TextNode(section, text_type, None)>> \o rest

\* delimiter_node with the parity test replaced by a test for exactly two
\* sections: an unclosed delimiter after a closed pair goes unnoticed.
delimiter_node_two_sections(old_node, delimiter, text_type) ==
    LET sections == Split(old_node.text, delimiter)
    IN  IF old_node.text_type # TextType.TEXT THEN Return(<<old_node>>)
        ELSE IF Len(sections) = 2 THEN Raise(NotClosed)
        ELSE Return(delimiter_sections(sections, 0, text_type))

\* One iteration of the outer loop of split_nodes_delimiter: what old_node
\* adds to new_nodes, or the error it raises.
delimiter_node(old_node, delimiter, text_type) ==
    LET sections == Split(old_node.text, delimiter)
    IN  IF old_node.text_type # TextType.TEXT THEN Return(<<old_node>>)
        ELSE IF Len(sections) % 2 = 0 THEN Raise(NotClosed)
        ELSE Return(delimiter_sections(sections, 0, text_type))

\* The outer loop shared by the three passes: the per-node results are
\* appended in order and the first error ends the pass.
RECURSIVE extend_all(_)
extend_all(results) ==
    IF results = <<>> THEN Return(<<>>)
    ELSE IF ~results[1].ok THEN results[1]
    ELSE LET rest == extend_all(Tail(results))
         IN  IF rest.ok THEN Return(results[1].val \o rest.val) ELSE rest

split_nodes_delimiter(old_nodes, delimiter, text_type) ==
    extend_all([i \in 1..Len(old_nodes) |-> delimiter_node(old_nodes[i], delimiter, text_type)])

\* The length of the longest run of characters outside stop that starts at
\* position i of text: what a greedy [^...]* consumes.
RECURSIVE run_length(_, _, _)
run_length(text, i, stop) ==
    IF i > Len(text) \/ text[i] \in stop THEN 0 ELSE 1 + run_length(text, i + 1, stop)

\* A match of \[([^\[\]]*)\]\(([^\(\)]*)\) that starts at position i.  The
\* two classes exclude the characters that must follow them, so the greedy
\* run is the only candidate and backtracking finds nothing else.
bracket_match(text, i) ==
    LET n == Len(text)
        l == run_length(text, i + 1, {"[", "]"})
        j == i + 1 + l
        u == run_length(text, j + 2, {"(", ")"})
        k == j + 2 + u
    IN  IF i <= n /\ text[i] = "[" /\ j + 1 <= n /\ text[j] = "]" /\ text[j + 1] = "("
           /\ k <= n /\ text[k] = ")"
        THEN [found |-> TRUE, label |-> SubSeq(text, i + 1, j - 1),
              url |-> SubSeq(text, j + 2, k - 1), last |-> k]
        ELSE [found |-> FALSE, label |-> <<>>, url |-> <<>>, last |-> 0]

\* re.findall(r"!\[([^\[\]]*)\]\(([^\(\)]*)\)", text) from position pos on:
\* the leftmost non-overlapping matches.
RECURSIVE images_from(_, _)
images_from(text, pos) ==
    IF pos > Len(text) THEN <<>>
    ELSE LET m == bracket_match(text, pos + 1)
         IN  IF text[pos] = "!" /\ m.found
             THEN <<<<m.label, m.url>>>> \o images_from(text, m.last + 1)
             ELSE images_from(text, pos + 1)

extract_markdown_images(text) == images_from(text, 1)

\* re.findall(r"(?<!!)\[([^\[\]]*)\]\(([^\(\)]*)\)", text) from position pos
\* on.  The lookbehind reads the character before the match in the whole
\* text.
RECURSIVE links_from(_, _)
links_from(text, pos) ==
    IF pos > Len(text) THEN <<>>
    ELSE LET m == bracket_match(text, pos)
         IN  IF (pos = 1 \/ text[pos - 1] # "!") /\ m.found
             THEN <<<<m.label, m.url>>>> \o links_from(text, m.last + 1)
             ELSE links_from(text, pos + 1)

extract_markdown_links(text) == links_from(text, 1)

\* f"![{image[0]}]({image[1]})"
image_syntax(image) == <<"!", "[">> \o image[1] \o <<"]", "(">> \o image[2] \o <<")">>

\* f"[{link[0]}]({link[1]})"
link_syntax(link) == <<"[">> \o link[1] \o <<"]", "(">> \o link[2] \o <<")">>

\* The inner loop of split_nodes_image: the nodes made of original_text and
\* the images not yet consumed.
RECURSIVE image_sections(_, _)
image_sections(original_text, images) ==
    IF images = <<>>
    THEN Return(IF original_text # <<>> THEN <<TextNode(original_text, TextType.TEXT, None)>>
                ELSE <<>>)
    ELSE LET image == images[1]
             sections == SplitOnce(original_text, image_syntax(image))
             rest == image_sections(sections[2], Tail(images))
             before == IF sections[1] # <<>> THEN <<TextNode(sections[1], TextType.TEXT, None)>>
                       ELSE <<>>
         IN  IF Len(sections) # 2 THEN Raise(ImageNotClosed)
             ELSE IF ~rest.ok THEN rest
             ELSE Return(before \o <<TextNode(image[1], TextType.IMAGE, Some(image[2]))>>
                         \o rest.val)

image_node(old_node) ==
    LET images == extract_markdown_images(old_node.text)
    IN  IF old_node.text_type # TextType.TEXT THEN Return(<<old_node>>)
        ELSE IF Len(images) = 0 THEN Return(<<old_node>>)
        ELSE image_sections(old_node.text, images)

split_nodes_image(old_nodes) ==
    extend_all([i \in 1..Len(old_nodes) |-> image_node(old_nodes[i])])

\* link_sections with the url left out of the link node:
\* TextNode(link[0], TextType.LINK).
RECURSIVE link_sections_without_url(_, _)
link_sections_without_url(original_text, links) ==
    IF links = <<>>
    THEN Return(IF original_text # <<>> THEN <<TextNode(original_text, TextType.TEXT, None)>>
                ELSE <<>>)
    ELSE LET link == links[1]
             sections == SplitOnce(original_text, link_syntax(link))
             rest == link_sections_without_url(sections[2], Tail(links))
             before == IF sections[1] # <<>> THEN <<TextNode(sections[1], TextType.TEXT, None)>>
                       ELSE <<>>
         IN  IF Len(sections) # 2 THEN Raise(LinkNotClosed)
             ELSE IF ~rest.ok THEN rest
             ELSE Return(before \o <<TextNode(link[1], TextType.LINK, None)>> \o rest.val)

\* The inner loop of split_nodes_link.
RECURSIVE link_sections(_, _)
link_sections(original_text, links) ==
    IF links = <<>>
    THEN Return(IF original_text # <<>> THEN <<TextNode(original_text, TextType.TEXT, None)>>
                ELSE <<>>)
    ELSE LET link == links[1]
             sections == SplitOnce(original_text, link_syntax(link))
             rest == link_sections(sections[2], Tail(links))
             before == IF sections[1] # <<>> THEN <<TextNode(sections[1], TextType.TEXT, None)>>
                       ELSE <<>>
         IN  IF Len(sections) # 2 THEN Raise(LinkNotClosed)
             ELSE IF ~rest.ok THEN rest
             ELSE Return(before \o <<TextNode(link[1], TextType.LINK, Some(link[2]))>>
                         \o rest.val)

\* link_node without the test of the kind: every node is searched for links.
link_node_any_kind(old_node) ==
    LET links == extract_markdown_links(old_node.text)
    IN  IF Len(links) = 0 THEN Return(<<old_node>>)
        ELSE link_sections(old_node.text, links)

link_node(old_node) ==
    LET links == extract_markdown_links(old_node.text)
    IN  IF old_node.text_type # TextType.TEXT THEN Return(<<old_node>>)
        ELSE IF Len(links) = 0 THEN Return(<<old_node>>)
        ELSE link_sections(old_node.text, links)

split_nodes_link(old_nodes) ==
    extend_all([i \in 1..Len(old_nodes) |-> link_node(old_nodes[i])])

\* A pass applied to what the previous pass returned: an error of the
\* previous pass propagates.
delimiter_pass(nodes, delimiter, text_type) ==
    IF nodes.ok THEN split_nodes_delimiter(nodes.val, delimiter, text_type) ELSE nodes

image_pass(nodes) == IF nodes.ok THEN split_nodes_image(nodes.val) ELSE nodes

link_pass(nodes) == IF nodes.ok THEN split_nodes_link(nodes.val) ELSE nodes

\* text_to_textnodes: bold, italic, code, image, link, each pass on the list
\* the previous one returned.
text_to_textnodes(text) ==
    link_pass(
        image_pass(
            delimiter_pass(
                delimiter_pass(
                    delimiter_pass(
                        Return(<<TextNode(text, TextType.TEXT, None)>>),
                        <<"*", "*">>,
                        TextType.BOLD),
                    <<"*">>,
                    TextType.ITALIC),
                <<Backtick>>,
                TextType.CODE)))

(***************************************************************************)
(* htmlnode.py: the HTML node tree.                                        *)
(***************************************************************************)
\* LeafNode(tag, value, props=None).  tag, value and props are optional;
\* props is a dict, a sequence of <<key, value>> pairs in insertion order.
LeafNode(tag, value, props) ==
    [kind |-> "leaf", tag |-> tag, value |-> value, children |-> None, props |-> props]

\* ParentNode(tag, children, props=None)
ParentNode(tag, children, props) ==
    [kind |-> "parent", tag |-> tag, value |-> None, children |-> children, props |-> props]

\* str(x) of an optional str inside an f-string.
FormatOpt(x) == IF x.some THEN x.v ELSE <<"N", "o", "n", "e">>

\* props_items with each attribute put in front of the ones before it:
\* props_html = f' {prop}="..."' + props_html.
RECURSIVE props_items_reversed(_)
props_items_reversed(props) ==
    IF props = <<>> THEN <<>>
    ELSE props_items_reversed(Tail(props))
         \o <<" ">> \o props[1][1] \o <<"=", "\"">> \o FormatOpt(props[1][2]) \o <<"\"">>

\* HTMLNode.props_to_html
RECURSIVE props_items(_)
props_items(props) ==
    IF props = <<>> THEN <<>>
    ELSE <<" ">> \o props[1][1] \o <<"=", "\"">> \o FormatOpt(props[1][2]) \o <<"\"">>
         \o props_items(Tail(props))

props_to_html(node) == IF ~node.props.some THEN <<>> ELSE props_items(node.props.v)

NoValue == "Invalid HTML: no value"

NoTag == "Invalid HTML: no tag"

NoChildren == "Invalid HTML: no children"

\* LeafNode.to_html
leaf_to_html(node) ==
    IF ~node.value.some THEN Raise(NoValue)
    ELSE IF ~node.tag.some THEN Return(node.value.v)
    ELSE Return(<<"<">> \o node.tag.v \o props_to_html(node) \o <<">">> \o node.value.v
                \o <<"<", "/">> \o node.tag.v \o <<">">>)

\* The last line of ParentNode.to_html, given the rendering of the children
\* or the error one of them raised.
element_html(node, children_html) ==
    IF ~children_html.ok THEN children_html
    ELSE Return(<<"<">> \o node.tag.v \o props_to_html(node) \o <<">">>
                \o children_html.val \o <<"<", "/">> \o node.tag.v \o <<">">>)

\* add_html with the rendering of a child put in front of its successors'
\* instead of behind its predecessors'.
add_html_prepended(first, rest) ==
    IF ~first.ok THEN first
    ELSE IF ~rest.ok THEN rest
    ELSE Return(rest.val \o first.val)

\* children_html += child.to_html(): the first error propagates.
add_html(first, rest) ==
    IF ~first.ok THEN first
    ELSE IF ~rest.ok THEN rest
    ELSE Return(first.val \o rest.val)

\* to_html, dispatched on the class of the node; ParentNode.to_html renders
\* its children in order.
RECURSIVE to_html(_)
RECURSIVE children_to_html(_)
children_to_html(children) ==
    IF children = <<>> THEN Return(<<>>)
    ELSE add_html(to_html(children[1]), children_to_html(Tail(children)))

to_html(node) ==
    IF node.kind = "leaf" THEN leaf_to_html(node)
    ELSE IF ~node.tag.some THEN Raise(NoTag)
    ELSE IF ~node.children.some THEN Raise(NoChildren)
    ELSE element_html(node, children_to_html(node.children.v))

(***************************************************************************)
(* textnode.py: inline node to HTML leaf.                                  *)
(***************************************************************************)
\* The message, which goes on with the text type that was passed.
InvalidTextType == "Invalid text type"

\* text_node_to_html_node with the attributes of an image in the other
\* order: {"alt": text_node.text, "src": text_node.url}.
text_node_to_html_node_alt_first(text_node) ==
    IF text_node.text_type = TextType.TEXT THEN Return(LeafNode(None, Some(text_node.text), None))
    ELSE IF text_node.text_type = TextType.BOLD
    THEN Return(LeafNode(Some(<<"b">>), Some(text_node.text), None))
    ELSE IF text_node.text_type = TextType.ITALIC
    THEN Return(LeafNode(Some(<<"i">>), Some(text_node.text), None))
    ELSE IF text_node.text_type = TextType.CODE
    THEN Return(LeafNode(Some(<<"c", "o", "d", "e">>), Some(text_node.text), None))
    ELSE IF text_node.text_type = TextType.LINK
    THEN Return(LeafNode(Some(<<"a">>), Some(text_node.text),
                         Some(<<<<<<"h", "r", "e", "f">>, text_node.url>>>>)))
    ELSE IF text_node.text_type = TextType.IMAGE
    THEN Return(LeafNode(Some(<<"i", "m", "g">>), Some(<<>>),
                         Some(<<<<<<"a", "l", "t">>, Some(text_node.text)>>,
                                <<<<"s", "r", "c">>, text_node.url>>>>)))
    ELSE Raise(InvalidTextType)

text_node_to_html_node(text_node) ==
    IF text_node.text_type = TextType.TEXT THEN Return(LeafNode(None, Some(text_node.text), None))
    ELSE IF text_node.text_type = TextType.BOLD
    THEN Return(LeafNode(Some(<<"b">>), Some(text_node.text), None))
    ELSE IF text_node.text_type = TextType.ITALIC
    THEN Return(LeafNode(Some(<<"i">>), Some(text_node.text), None))
    ELSE IF text_node.text_type = TextType.CODE
    THEN Return(LeafNode(Some(<<"c", "o", "d", "e">>), Some(text_node.text), None))
    ELSE IF text_node.text_type = TextType.LINK
    THEN Return(LeafNode(Some(<<"a">>), Some(text_node.text),
                         Some(<<<<<<"h", "r", "e", "f">>, text_node.url>>>>)))
    ELSE IF text_node.text_type = TextType.IMAGE
    THEN Return(LeafNode(Some(<<"i", "m", "g">>), Some(<<>>),
                         Some(<<<<<<"s", "r", "c">>, text_node.url>>,
                                <<<<"a", "l", "t">>, Some(text_node.text)>>>>)))
    ELSE Raise(InvalidTextType)

(***************************************************************************)
(* markdown_blocks.py: the block compiler.                                 *)
(***************************************************************************)
\* list.append(x) for an x whose computation may raise, ahead of the rest of
\* a loop: the first error propagates.
append_to(first, rest) ==
    IF ~first.ok THEN first
    ELSE IF ~rest.ok THEN rest
    ELSE Return(<<first.val>> \o rest.val)

\* The loop of text_to_children.
RECURSIVE children_of(_)
children_of(text_nodes) ==
    IF text_nodes = <<>> THEN Return(<<>>)
    ELSE append_to(text_node_to_html_node(text_nodes[1]), children_of(Tail(text_nodes)))

\* text_to_children after its call of text_to_textnodes.
children_of_result(text_nodes) ==
    IF ~text_nodes.ok THEN text_nodes ELSE children_of(text_nodes.val)

text_to_children(text) == children_of_result(text_to_textnodes(text))

\* return ParentNode(tag, children, None), once children has been computed
\* without error.
parent_of(tag, children) ==
    IF ~children.ok THEN children
    ELSE Return(ParentNode(Some(tag), Some(children.val), None))

\* str(n) of a natural number.
Digit(n) == <<"0", "1", "2", "3", "4", "5", "6", "7", "8", "9">>[n + 1]

RECURSIVE IntToStr(_)
IntToStr(n) == IF n < 10 THEN <<Digit(n)>> ELSE IntToStr(n \div 10) \o <<Digit(n % 10)>>

\* s.count(c, 0, end) for a one-character c: end is a slice bound, counted
\* from the end of s when negative.
CountChar(s, c, end) ==
    LET stop == IF end < 0 THEN (IF Len(s) + end < 0 THEN 0 ELSE Len(s) + end)
                ELSE IF end > Len(s) THEN Len(s) ELSE end
    IN  Cardinality({i \in 1..stop : s[i] = c})

InvalidHeading == "Invalid heading block"

InvalidCode == "Invalid code block"

InvalidQuote == "Invalid quote block"

InvalidList == "Invalid list block"

InvalidBlockType == "Invalid block type"

\* process_heading with the test level + 1 > len(block).
process_heading_marker_and_space(block) ==
    LET level == CountChar(block, "#", Find(block, <<" ">>, 1) - 1)
    IN  IF level + 1 > Len(block) THEN Raise(InvalidHeading)
        ELSE parent_of(<<"h">> \o IntToStr(level), text_to_children(DropFirst(block, level + 1)))

process_heading(block) ==
    LET level == CountChar(block, "#", Find(block, <<" ">>, 1) - 1)
    IN  IF level + 1 >= Len(block) THEN Raise(InvalidHeading)
        ELSE parent_of(<<"h">> \o IntToStr(level), text_to_children(DropFirst(block, level + 1)))

process_paragraph(block) ==
    LET lines == Split(block, <<"\n">>)
        paragraph_text == Join(<<" ">>, lines)
    IN  parent_of(<<"p">>, text_to_children(paragraph_text))

\* process_code without the strip(): text = block[3:-3].
process_code_unstripped(block) ==
    IF ~StartsWith(block, Backticks) \/ ~EndsWith(block, Backticks) THEN Raise(InvalidCode)
    ELSE parent_of(<<"c", "o", "d", "e">>, text_to_children(SubSeq(block, 4, Len(block) - 3)))

process_code(block) ==
    IF ~StartsWith(block, Backticks) \/ ~EndsWith(block, Backticks) THEN Raise(InvalidCode)
    ELSE parent_of(<<"c", "o", "d", "e">>,
                   text_to_children(Strip(SubSeq(block, 4, Len(block) - 3))))

\* The loop of process_quote: the stripped lines, or the error of the first
\* line without the marker.
RECURSIVE quote_lines(_)
quote_lines(lines) ==
    IF lines = <<>> THEN Return(<<>>)
    ELSE IF ~StartsWith(lines[1], <<">">>) THEN Raise(InvalidQuote)
    ELSE append_to(Return(DropFirst(lines[1], 2)), quote_lines(Tail(lines)))

\* process_quote after its loop.
quote_node(new_lines) ==
    IF ~new_lines.ok THEN new_lines
    ELSE parent_of(<<"b", "l", "o", "c", "k", "q", "u", "o", "t", "e">>,
                   text_to_children(Join(<<" ">>, new_lines.val)))

process_quote(block) == quote_node(quote_lines(Split(block, <<"\n">>)))

UnorderedPattern == "^[\\*\\-]\\s"

OrderedPattern == "^\\d\\.\\s"

\* re.match(list_item_pattern, line) for the two patterns the program uses.
list_item_match(list_item_pattern, line) ==
    IF list_item_pattern = UnorderedPattern THEN unordered_match(line) ELSE ordered_match(line)

\* The loop of process_list.
RECURSIVE list_items_of(_, _, _)
list_items_of(lines, list_item_pattern, list_item_prefix_length) ==
    IF lines = <<>> THEN Return(<<>>)
    ELSE IF ~list_item_match(list_item_pattern, lines[1]) THEN Raise(InvalidList)
    ELSE append_to(parent_of(<<"l", "i">>,
                             text_to_children(DropFirst(lines[1], list_item_prefix_length))),
                   list_items_of(Tail(lines), list_item_pattern, list_item_prefix_length))

\* process_list removing two characters from every item, whatever the list.
process_list_prefix_two(block, list_type, list_item_pattern, list_item_prefix_length) ==
    parent_of(list_type, list_items_of(Split(block, <<"\n">>), list_item_pattern, 2))

process_list(block, list_type, list_item_pattern, list_item_prefix_length) ==
    parent_of(list_type,
              list_items_of(Split(block, <<"\n">>), list_item_pattern,
                            list_item_prefix_length))

\* The match statement of block_to_html_node: the value the classifier
\* returned is compared with the members of BlockType, case by case.
match_block_type(block_type, block) ==
    IF block_type = BlockType.HEADING THEN process_heading(block)
    ELSE IF block_type = BlockType.PARAGRAPH THEN process_paragraph(block)
    ELSE IF block_type = BlockType.CODE THEN process_code(block)
    ELSE IF block_type = BlockType.QUOTE THEN process_quote(block)
    ELSE IF block_type = BlockType.UNORDERED_LIST
    THEN process_list(block, <<"u", "l">>, UnorderedPattern, 2)
    ELSE IF block_type = BlockType.ORDERED_LIST
    THEN process_list(block, <<"o", "l">>, OrderedPattern, 3)
    ELSE Raise(InvalidBlockType)

\* block_to_html_node after its call of block_to_block_type: an error of the
\* classifier propagates.
dispatch(block_type, block) ==
    IF ~block_type.ok THEN block_type ELSE match_block_type(block_type.val, block)

block_to_html_node(block) == dispatch(block_to_block_type(block), block)

\* The list comprehension of markdown_to_html_node.
RECURSIVE compile_blocks(_)
compile_blocks(blocks) ==
    IF blocks = <<>> THEN Return(<<>>)
    ELSE append_to(block_to_html_node(blocks[1]), compile_blocks(Tail(blocks)))

markdown_to_html_node(markdown) ==
    parent_of(<<"d", "i", "v">>, compile_blocks(markdown_to_blocks(markdown)))

(***************************************************************************)
(* generate_page.py                                                        *)
(***************************************************************************)
NoTitle == "No title found in the markdown file"

\* The loop of extract_title over lines[i..].
RECURSIVE title_from(_)
title_from(lines) ==
    IF lines = <<>> THEN Raise(NoTitle)
    ELSE IF StartsWith(lines[1], <<"#", " ">>) THEN Return(DropFirst(lines[1], 2))
    ELSE title_from(Tail(lines))

\* extract_title reading the document block by block instead of line by line.
extract_title_by_blocks(markdown) == title_from(Split(markdown, <<"\n", "\n">>))

extract_title(markdown) == title_from(Split(markdown, <<"\n">>))

\* str.replace(old, new) for a non-empty old: every non-overlapping
\* occurrence, left to right.
Replace(s, old, new) == Join(new, Split(s, old))

TitlePlaceholder == <<"{", "{", " ", "T", "i", "t", "l", "e", " ", "}", "}">>

ContentPlaceholder == <<"{", "{", " ", "C", "o", "n", "t", "e", "n", "t", " ", "}", "}">>

\* The text generate_page writes, once html has been computed without error.
page_text(template, title, html) ==
    IF ~html.ok THEN html
    ELSE Return(Replace(Replace(template, TitlePlaceholder, title.val),
                        ContentPlaceholder, html.val))

\* generate_page after the title and the node tree have been computed: the
\* first error propagates, the title's before the tree's.
page_of(template, title, node) ==
    IF ~title.ok THEN title
    ELSE IF ~node.ok THEN node
    ELSE page_text(template, title, to_html(node.val))

\* generate_page on a source file holding markdown and a template file
\* holding template: the text written to dest_path, or the error raised
\* before the write.
generate_page(markdown, template) ==
    page_of(template, extract_title(markdown), markdown_to_html_node(markdown))

(***************************************************************************)
(* The state machine: an input is drawn, then one function is applied.     *)
(***************************************************************************)
Pending == [ok |-> FALSE, val |-> <<>>, err |-> "pending"]

DocAlphabet == {"\n", " ", "a"}

BlockAlphabet == {"\n", " ", "\t", "a", "#", Backtick, ">", "*", "-", "1", "."}

TextAlphabet == {"a", "*", Backtick, "!", "[", "]", "(", ")"}

PageAlphabet == {"\n", " ", "a", "#"}

Templates ==
    {TitlePlaceholder \o <<"|">> \o ContentPlaceholder,
     ContentPlaceholder \o TitlePlaceholder \o <<"{">> \o TitlePlaceholder}

OldDest == <<"o", "l", "d">>

InitOn(inputs) ==
    /\ op = "start"
    /\ arg \in inputs
    /\ ret = Pending
    /\ template_text = <<>>
    /\ dest = None
    /\ fs = {}
    /\ calls = <<>>

\* A pure function f is applied to the input.
Apply(name, result) ==
    /\ op = "start"
    /\ op' = name
    /\ ret' = result
    /\ UNCHANGED <<arg, template_text, dest, fs, calls>>

Do_markdown_to_blocks == Apply("markdown_to_blocks", Return(markdown_to_blocks(arg)))

Do_block_to_block_type == Apply("block_to_block_type", block_to_block_type(arg))

Do_text_to_textnodes == Apply("text_to_textnodes", text_to_textnodes(arg))

Do_extract_title == Apply("extract_title", extract_title(arg))

Do_markdown_to_html_node == Apply("markdown_to_html_node", markdown_to_html_node(arg))

\* write_page with dest_path opened for writing before the page is
\* computed: an error leaves an empty file.
write_page_opened_first(page) ==
    /\ op = "start"
    /\ op' = "generate_page"
    /\ ret' = IF page.ok THEN Return(<<>>) ELSE page
    /\ dest' = IF page.ok THEN Some(page.val) ELSE Some(<<>>)
    /\ UNCHANGED <<arg, template_text, fs, calls>>

\* The effect of generate_page, given the page text it computed or the error
\* raised on the way: dest_path is opened for writing only after the title,
\* the node tree and the HTML have been computed, and an error before that
\* leaves the file system as it was.  The function itself returns None.
write_page(page) ==
    /\ op = "start"
    /\ op' = "generate_page"
    /\ ret' = IF page.ok THEN Return(<<>>) ELSE page
    /\ dest' = IF page.ok THEN Some(page.val) ELSE dest
    /\ UNCHANGED <<arg, template_text, fs, calls>>

\* generate_page(from_path, template_path, dest_path) with both input files
\* present.
Do_generate_page == write_page(generate_page(arg, template_text))

\* The block splitter.
InitBlocks == InitOn(StrSet(DocAlphabet, MaxDocLen))

NextBlocks == Do_markdown_to_blocks

SpecBlocks == InitBlocks /\ [][NextBlocks]_vars

\* The block classifier.
InitClassify == InitOn(StrSet(BlockAlphabet, MaxBlockLen))

NextClassify == Do_block_to_block_type

SpecClassify == InitClassify /\ [][NextClassify]_vars

MaxPieces == 3

\* Links, images and fragments of them.
LinkPieces ==
    {<<"!">>, <<"a">>, <<"*">>, <<"[">>, <<"]">>, <<"(">>, <<")">>,
     <<"[", "a", "]", "(", "b", ")">>, <<"[", "]", "(", ")">>}

\* Texts of up to MaxPieces pieces: several links and images, the same one
\* twice, one inside or next to another.
LinkTexts == {Join(<<>>, pieces) : pieces \in StrSet(LinkPieces, MaxPieces)}

\* The inline lexer.
InitInline == InitOn(StrSet(TextAlphabet, MaxTextLen) \cup LinkTexts)

NextInline == Do_text_to_textnodes

SpecInline == InitInline /\ [][NextInline]_vars

\* Documents to pages.
InitPage ==
    /\ op = "start"
    /\ arg \in StrSet(PageAlphabet, MaxPageLen)
    /\ ret = Pending
    /\ template_text \in Templates
    /\ dest \in {None, Some(OldDest)}
    /\ fs = {}
    /\ calls = <<>>

NextPage ==
    \/ Do_extract_title
    \/ Do_markdown_to_html_node
    \/ Do_generate_page

SpecPage == InitPage /\ [][NextPage]_vars

Init == InitPage

Next == NextPage

Spec == SpecPage

(***************************************************************************)
(* HTML nodes to text: inputs are node trees as a caller may build them.   *)
(***************************************************************************)
MaxProps == 2

MaxChildren == 2

PropKeys == {<<"h", "r", "e", "f">>, <<"s", "r", "c">>, <<"a", "l", "t">>}

PropValues == {Some(<<>>), Some(<<"u">>)}

\* The dicts of at most n attributes: the keys of a dict are distinct, and
\* iteration follows insertion order.
PropDicts(n) ==
    {d \in UNION {[1..k -> PropKeys \X PropValues] : k \in 0..n} :
        \A i, j \in DOMAIN d : i # j => d[i][1] # d[j][1]}

LeafNodes ==
    {LeafNode(tag, value, props) :
        tag \in {None, Some(<<>>), Some(<<"b">>)},
        value \in {None, Some(<<>>), Some(<<"x">>)},
        props \in {None} \cup {Some(d) : d \in PropDicts(MaxProps)}}

\* The leaves used as children: plain text, an element, and a leaf without
\* a value, whose rendering raises.
TreeLeaves ==
    {LeafNode(None, Some(<<"x">>), None),
     LeafNode(Some(<<"b">>), Some(<<"x">>), None),
     LeafNode(Some(<<"b">>), None, None)}

ChildLists(nodes) == {None} \cup {Some(c) : c \in StrSet(nodes, MaxChildren)}

\* Children of the root: leaves and parents of leaves.
InnerNodes ==
    TreeLeaves
    \cup {ParentNode(None, Some(<<>>), None)}
    \cup {ParentNode(Some(<<"i">>), children, None) : children \in ChildLists(TreeLeaves)}

ParentNodes ==
    {ParentNode(tag, children, props) :
        tag \in {None, Some(<<"p">>)},
        children \in ChildLists(InnerNodes),
        props \in {None, Some(<<<<<<"i", "d">>, Some(<<"v">>)>>>>)}}

\* node.to_html() on an instance of LeafNode.
Do_leaf_to_html ==
    /\ arg.kind = "leaf"
    /\ Apply("LeafNode.to_html", to_html(arg))

\* node.to_html() on an instance of ParentNode.
Do_parent_to_html ==
    /\ arg.kind = "parent"
    /\ Apply("ParentNode.to_html", to_html(arg))

InitHtml == InitOn(LeafNodes \cup ParentNodes)

NextHtml ==
    \/ Do_leaf_to_html
    \/ Do_parent_to_html

SpecHtml == InitHtml /\ [][NextHtml]_vars

(***************************************************************************)
(* Inline nodes to HTML leaves: inputs are TextNodes as a caller may build *)
(* them; text_type is any object, a member of TextType or not.             *)
(***************************************************************************)
MaxLabelLen == 2

TextTypeObjects == {TextType[k] : k \in DOMAIN TextType} \cup {StrObj("bold"), NoneObj}

TextNodes ==
    {TextNode(text, text_type, url) :
        text \in StrSet({"a"}, MaxLabelLen),
        text_type \in TextTypeObjects,
        url \in {None, Some(<<>>), Some(<<"u">>)}}

Do_text_node_to_html_node == Apply("text_node_to_html_node", text_node_to_html_node(arg))

InitTextNode == InitOn(TextNodes)

NextTextNode == Do_text_node_to_html_node

SpecTextNode == InitTextNode /\ [][NextTextNode]_vars

(***************************************************************************)
(* The block compilers: inputs are blocks, well-formed or not.             *)
(***************************************************************************)
MaxCompileLen == 3

\* n '#' characters.
Hashes(n) == [i \in 1..n |-> "#"]

\* Blocks that start with up to seven '#'.
HeadingBlocks ==
    {Hashes(n) \o s : n \in 1..7, s \in StrSet({" ", "a", "#"}, MaxCompileLen)}

\* Blocks between two fences of three backticks, and blocks whose two
\* fences overlap or whose closing fence is missing.
CodeBlocks ==
    {Backticks \o s \o Backticks :
        s \in StrSet({" ", "\n", "a", "*", Backtick}, MaxCompileLen)}
    \cup {Backticks \o s : s \in StrSet({"a", Backtick}, MaxCompileLen)}

ListLines ==
    {<<"-", " ", "a">>, <<"*", " ", "*", "a", "*">>, <<"-", " ", "*", "a">>, <<"-", "\t">>,
     <<"1", ".", " ", "a">>, <<"2", ".", " ", Backtick, "a", Backtick>>, <<"1", ".", "a">>,
     <<"a">>}

\* Blocks of up to MaxCompileLen lines, list items or not.
ListBlocks == {Join(<<"\n">>, lines) : lines \in StrSet(ListLines, MaxCompileLen) \ {<<>>}}

CompileBlocks ==
    StrSet(BlockAlphabet, MaxCompileLen) \cup HeadingBlocks \cup CodeBlocks \cup ListBlocks

\* The two calls of process_list in block_to_html_node.
ListCalls ==
    {[name |-> "process_list(ul)", list_type |-> <<"u", "l">>,
      list_item_pattern |-> UnorderedPattern, list_item_prefix_length |-> 2],
     [name |-> "process_list(ol)", list_type |-> <<"o", "l">>,
      list_item_pattern |-> OrderedPattern, list_item_prefix_length |-> 3]}

Do_process_heading == Apply("process_heading", process_heading(arg))

Do_process_paragraph == Apply("process_paragraph", process_paragraph(arg))

Do_process_code == Apply("process_code", process_code(arg))

Do_process_quote == Apply("process_quote", process_quote(arg))

Do_process_list ==
    \E call \in ListCalls :
        Apply(call.name,
              process_list(arg, call.list_type, call.list_item_pattern,
                           call.list_item_prefix_length))

Do_block_to_html_node == Apply("block_to_html_node", block_to_html_node(arg))

InitCompile == InitOn(CompileBlocks)

NextCompile ==
    \/ Do_process_heading
    \/ Do_process_paragraph
    \/ Do_process_code
    \/ Do_process_quote
    \/ Do_process_list
    \/ Do_block_to_html_node

SpecCompile == InitCompile /\ [][NextCompile]_vars

(***************************************************************************)
(* utils.py: the static asset copier.                                      *)
(*                                                                         *)
(* A file system is the set of its entries.  A path is the sequence of its *)
(* components; the root <<>> is a directory of every file system.          *)
(***************************************************************************)
MaxDepth == 2

\* The depth of calls at which Python raises RecursionError, scaled down.
MaxCalls == 4

Dir(path) == [path |-> path, isdir |-> TRUE, data |-> ""]

File(path, data) == [path |-> path, isdir |-> FALSE, data |-> data]

IsPrefix(p, q) == Len(p) <= Len(q) /\ SubSeq(q, 1, Len(p)) = p

\* os.path.exists(path)
exists(files, path) == \E e \in files : e.path = path

\* os.path.isdir(path)
isdir(files, path) == Dir(path) \in files

\* os.listdir(path): the names in the directory, in no particular order.
listdir(files, path) ==
    {e.path[Len(path) + 1] :
        e \in {x \in files : Len(x.path) = Len(path) + 1 /\ IsPrefix(path, x.path)}}

\* shutil.rmtree(path): the directory and everything below it.
rmtree(files, path) ==
    IF ~isdir(files, path) THEN Raise("NotADirectoryError")
    ELSE Return({e \in files : ~IsPrefix(path, e.path)})

\* path and the directories above it.
Ancestors(path) == {SubSeq(path, 1, n) : n \in 0..Len(path)}

\* os.makedirs(path, exist_ok=True): the missing directories down to path.
makedirs(files, path) ==
    IF exists(files, path) /\ ~isdir(files, path) THEN Raise("FileExistsError")
    ELSE IF \E q \in Ancestors(path) : exists(files, q) /\ ~isdir(files, q)
    THEN Raise("NotADirectoryError")
    ELSE Return(files \cup {Dir(q) : q \in Ancestors(path)})

\* shutil.copy2(src, dst) for a src that is no directory: into dst when dst
\* is a directory, else onto dst, whose directory must exist.
copy2(files, src, dst) ==
    LET target == IF isdir(files, dst) THEN dst \o <<src[Len(src)]>> ELSE dst
        source == CHOOSE e \in files : e.path = src
    IN  IF ~exists(files, src) THEN Raise("FileNotFoundError")
        ELSE IF ~exists(files, SubSeq(target, 1, Len(target) - 1))
        THEN Raise("FileNotFoundError")
        ELSE IF ~isdir(files, SubSeq(target, 1, Len(target) - 1))
        THEN Raise("NotADirectoryError")
        ELSE Return({e \in files : e.path # target} \cup {File(target, source.data)})

\* delete_directory that leaves the tree where it is.
delete_directory_kept(files, path) == Return(files)

\* delete_directory(dest)
delete_directory(files, path) ==
    IF exists(files, path) THEN rmtree(files, path) ELSE Return(files)

\* A call of recursive_copy(src, dst): entered once the test of src and the
\* makedirs are done, with the items of the listing still to be handled.
Call(src, dst) == [src |-> src, dst |-> dst, entered |-> FALSE, items |-> {}]

\* One step of copy_directory to the next position.
Step(position, result, files, stack) ==
    /\ op' = position
    /\ ret' = result
    /\ fs' = files
    /\ calls' = stack
    /\ UNCHANGED <<arg, template_text, dest>>

\* An exception leaves copy_directory; the file system stays as it is.
Fail(error) == Step("raised", error, fs, <<>>)

\* copy_directory up to its call of delete_directory: without a source it
\* returns at once.
Do_copy_directory ==
    /\ op = "start"
    /\ IF ~exists(fs, arg.src) THEN Step("done", Return(<<>>), fs, calls)
       ELSE Step("delete_directory", ret, fs, calls)

\* delete_directory(dest), then the call recursive_copy(src, dest).
deleted(files) ==
    IF ~files.ok THEN Fail(files)
    ELSE Step("recursive_copy", ret, files.val, <<Call(arg.src, arg.dest)>>)

Do_delete_directory ==
    /\ op = "delete_directory"
    /\ deleted(delete_directory(fs, arg.dest))

\* The stack without its top, and with another top.
Pop(stack) == SubSeq(stack, 1, Len(stack) - 1)

\* recursive_copy(src, dst) on a directory, once makedirs has been tried:
\* the listing is taken after the directory has been made.
entered(call, made) ==
    IF ~made.ok THEN Fail(made)
    ELSE Step("recursive_copy", ret, made.val,
              Pop(calls) \o <<[call EXCEPT !.entered = TRUE,
                                           !.items = listdir(made.val, call.src)]>>)

\* recursive_copy(src, dst) on anything else, once copy2 has been tried.
copied(files) ==
    IF ~files.ok THEN Fail(files) ELSE Step("recursive_copy", ret, files.val, Pop(calls))

\* A call of recursive_copy begins: a directory is made at dst, anything
\* else is copied to dst, and the call returns.
Do_recursive_copy ==
    /\ op = "recursive_copy"
    /\ calls # <<>>
    /\ ~calls[Len(calls)].entered
    /\ IF Len(calls) > MaxCalls THEN Fail(Raise("RecursionError"))
       ELSE IF isdir(fs, calls[Len(calls)].src)
       THEN entered(calls[Len(calls)], makedirs(fs, calls[Len(calls)].dst))
       ELSE copied(copy2(fs, calls[Len(calls)].src, calls[Len(calls)].dst))

\* The loop of recursive_copy takes the next item of the listing, whichever
\* it is, and calls recursive_copy on it.
next_item(call, item) ==
    Step("recursive_copy", ret, fs,
         Pop(calls) \o <<[call EXCEPT !.items = call.items \ {item}],
                         Call(call.src \o <<item>>, call.dst \o <<item>>)>>)

Do_next_item ==
    /\ op = "recursive_copy"
    /\ calls # <<>>
    /\ calls[Len(calls)].entered
    /\ \E item \in calls[Len(calls)].items : next_item(calls[Len(calls)], item)

\* The loop of a call of recursive_copy is over: the call returns.
Do_return ==
    /\ op = "recursive_copy"
    /\ calls # <<>>
    /\ calls[Len(calls)].entered
    /\ calls[Len(calls)].items = {}
    /\ Step("recursive_copy", ret, fs, Pop(calls))

\* The first call of recursive_copy has returned: copy_directory returns.
Do_copy_directory_return ==
    /\ op = "recursive_copy"
    /\ calls = <<>>
    /\ Step("done", Return(<<>>), fs, calls)

\* The names a directory may hold: two down to the second level, one below.
ChildNames(level) == IF level < 2 THEN {"a", "b"} ELSE {"a"}

\* The tree with its root at path.
Under(path, tree) == {[e EXCEPT !.path = path \o e.path] : e \in tree}

\* The trees, as sets of entries with paths from the root of the tree, whose
\* root is at the given level and that reach at most depth levels below it:
\* a file, or a directory of files and directories.
RECURSIVE Trees(_, _, _)
Trees(level, depth, data) ==
    {{File(<<>>, data)}}
    \cup IF depth = 0 THEN {{Dir(<<>>)}}
         ELSE {{Dir(<<>>)} \cup UNION {Under(<<name>>, c[name]) : name \in ChildNames(level)} :
                  c \in [ChildNames(level) -> {{}} \cup Trees(level + 1, depth - 1, data)]}

\* The file system that holds the tree at path, the directories above path
\* and the rest.
Mounted(path, tree, rest) ==
    IF tree = {} THEN rest \cup {Dir(<<>>)}
    ELSE rest \cup Under(path, tree)
         \cup {Dir(q) : q \in Ancestors(SubSeq(path, 1, Len(path) - 1))}

CopyInput(src, dst, files) == [src |-> src, dest |-> dst, files |-> files]

\* The calls copy_directory(src, dest) and the file systems they are made
\* on: src absent, a file or a tree; dest absent, a file or a tree next to
\* src, below a directory that does not exist, src itself, inside src or
\* around src.
CopyInputs ==
    {CopyInput(<<"s">>, <<"d">>, Mounted(<<"s">>, t, Mounted(<<"d">>, o, {}))) :
        t \in {{}} \cup Trees(0, MaxDepth, "new"), o \in {{}} \cup Trees(0, 1, "old")}
    \cup {CopyInput(<<"s">>, dst, Mounted(<<"s">>, t, {})) :
            t \in Trees(0, MaxDepth, "new"),
            dst \in {<<"m", "d">>, <<"s">>, <<"s", "a">>}}
    \cup {CopyInput(<<"d", "a">>, <<"d">>, Mounted(<<"d", "a">>, t, {})) :
            t \in Trees(0, MaxDepth, "new")}

InitCopy ==
    /\ op = "start"
    /\ arg \in CopyInputs
    /\ ret = Pending
    /\ template_text = <<>>
    /\ dest = None
    /\ fs = arg.files
    /\ calls = <<>>

NextCopy ==
    \/ Do_copy_directory
    \/ Do_delete_directory
    \/ Do_recursive_copy
    \/ Do_next_item
    \/ Do_return
    \/ Do_copy_directory_return

SpecCopy == InitCopy /\ [][NextCopy]_vars

(***************************************************************************)
(* The lexer passes on their own: inputs are lists of nodes, plain or not, *)
(* as a pass of text_to_textnodes or another caller may hand them over.    *)
(***************************************************************************)
MaxNodes == 3

\* Texts of plain nodes: with and without syntax, closed and unclosed.
PlainTexts ==
    {<<>>, <<"a">>, <<"*", "a", "*">>, <<"*", "*", "a", "*", "*">>, <<"*", "a">>,
     <<Backtick, "a", Backtick>>, <<"!", "[", "a", "]", "(", "b", ")">>,
     <<"a", "[", "a", "]", "(", "b", ")", "a">>}

\* Nodes of other kinds, some with a text that holds syntax.
OtherNodes ==
    {TextNode(<<"a">>, TextType.BOLD, None),
     TextNode(<<"*", "a", "*">>, TextType.BOLD, None),
     TextNode(<<"*", "a">>, TextType.CODE, None),
     TextNode(<<"[", "a", "]", "(", "b", ")">>, TextType.ITALIC, None),
     TextNode(<<"a">>, TextType.LINK, Some(<<"b">>)),
     TextNode(<<"!", "[", "a", "]", "(", "b", ")">>, TextType.IMAGE, Some(<<"b">>))}

PassNodes == {TextNode(text, TextType.TEXT, None) : text \in PlainTexts} \cup OtherNodes

NodeLists == StrSet(PassNodes, MaxNodes)

\* The three calls of split_nodes_delimiter in text_to_textnodes.
DelimiterCalls ==
    {[name |-> "split_nodes_delimiter(bold)", delimiter |-> <<"*", "*">>,
      text_type |-> TextType.BOLD],
     [name |-> "split_nodes_delimiter(italic)", delimiter |-> <<"*">>,
      text_type |-> TextType.ITALIC],
     [name |-> "split_nodes_delimiter(code)", delimiter |-> <<Backtick>>,
      text_type |-> TextType.CODE]}

Do_split_nodes_delimiter ==
    \E call \in DelimiterCalls :
        Apply(call.name, split_nodes_delimiter(arg, call.delimiter, call.text_type))

Do_split_nodes_image == Apply("split_nodes_image", split_nodes_image(arg))

Do_split_nodes_link == Apply("split_nodes_link", split_nodes_link(arg))

InitPass == InitOn(NodeLists)

NextPass ==
    \/ Do_split_nodes_delimiter
    \/ Do_split_nodes_image
    \/ Do_split_nodes_link

SpecPass == InitPass /\ [][NextPass]_vars

(***************************************************************************)
(* Properties.                                                             *)
(***************************************************************************)
NonEmpty(s) == s # <<>>

Trimmed(s) == s = <<>> \/ (s[1] \notin Whitespace /\ s[Len(s)] \notin Whitespace)

Lines(block) == Split(block, <<"\n">>)

AllLines(block, Rule(_)) == \A i \in 1..Len(Lines(block)) : Rule(Lines(block)[i])

\* A line starts with 1 to 6 '#' characters immediately followed by a space.
HeadingRule(line) ==
    \E n \in 1..6 :
        /\ Len(line) >= n + 1
        /\ \A i \in 1..n : line[i] = "#"
        /\ line[n + 1] = " "

QuoteRule(line) == Len(line) >= 1 /\ line[1] = ">"

\* A line starts with '*' or '-' followed immediately by a space.
UnorderedRule(line) == Len(line) >= 2 /\ line[1] \in {"*", "-"} /\ line[2] = " "

\* A line starts with a single digit, a period and a space.
OrderedRule(line) ==
    Len(line) >= 3 /\ line[1] \in Digits /\ line[2] = "." /\ line[3] = " "

SixBlockTypes == {EnumValue(BlockType[k]) : k \in DOMAIN BlockType}

\* The number of non-overlapping occurrences of d in s, counted left to
\* right.
RECURSIVE CountOcc(_, _)
CountOcc(s, d) ==
    IF Len(s) < Len(d) THEN 0
    ELSE IF SubSeq(s, 1, Len(d)) = d THEN 1 + CountOcc(DropFirst(s, Len(d)), d)
    ELSE CountOcc(Tail(s), d)

Odd(n) == n % 2 = 1

DelimiterChars == {"*", Backtick}

NotDelimiterChar(c) == c \notin DelimiterChars

\* s with every '*' and backtick removed.
StripDelims(s) == SelectSeq(s, NotDelimiterChar)

\* The texts of the nodes, concatenated in order.
RECURSIVE ConcatText(_)
ConcatText(nodes) == IF nodes = <<>> THEN <<>> ELSE nodes[1].text \o ConcatText(Tail(nodes))

\* One of the three delimiters occurs an odd number of times in text.
OddDelimiter(text) ==
    \/ Odd(CountOcc(text, <<"*", "*">>))
    \/ Odd(CountOcc(text, <<"*">>))
    \/ Odd(CountOcc(text, <<Backtick>>))

\* Some node of the list is plain and holds d an odd number of times.
OddPlainNode(nodes, d) ==
    \E i \in 1..Len(nodes) :
        nodes[i].text_type = TextType.TEXT /\ Odd(CountOcc(nodes[i].text, d))

\* The lists the bold, italic and code passes of text_to_textnodes receive.
BoldInput(text) == Return(<<TextNode(text, TextType.TEXT, None)>>)

ItalicInput(text) == split_nodes_delimiter(BoldInput(text).val, <<"*", "*">>, TextType.BOLD)

CodeInput(text) ==
    IF ItalicInput(text).ok
    THEN split_nodes_delimiter(ItalicInput(text).val, <<"*">>, TextType.ITALIC)
    ELSE ItalicInput(text)

\* Some delimiter pass finds its delimiter an odd number of times in a node
\* that is still plain when the pass runs.
OddInPass(text) ==
    \/ OddPlainNode(BoldInput(text).val, <<"*", "*">>)
    \/ ItalicInput(text).ok /\ OddPlainNode(ItalicInput(text).val, <<"*">>)
    \/ CodeInput(text).ok /\ OddPlainNode(CodeInput(text).val, <<Backtick>>)

\* A block that is well-formed markdown whatever the compiler: one heading
\* line with content after the marker, or text without any '#'.
WellFormedBlock(block) ==
    /\ block # <<>>
    /\ Trimmed(block)
    /\ \/ \A i \in 1..Len(block) : block[i] # "#"
       \/ /\ Len(Lines(block)) = 1
          /\ HeadingRule(block)
          /\ LStrip(block) = block
          /\ \E i \in 1..Len(block) : block[i] \notin {"#", " "}

WellFormedDoc(doc) ==
    LET pieces == Split(doc, <<"\n", "\n">>)
    IN  \A i \in 1..Len(pieces) : WellFormedBlock(pieces[i])

\* C1: markdown_to_html_node returns a ParentNode tagged div whose children
\* are one compiled node per block of markdown_to_blocks, in block order; a
\* document without any '#' holds paragraphs only, which always compile to p.
C1_RootDivPerBlock ==
    (op = "markdown_to_html_node" /\ \A i \in 1..Len(arg) : arg[i] # "#") =>
        /\ ret.ok
        /\ ret.val.kind = "parent"
        /\ ret.val.tag = Some(<<"d", "i", "v">>)
        /\ Len(ret.val.children.v) = Len(markdown_to_blocks(arg))
        /\ \A i \in 1..Len(ret.val.children.v) : ret.val.children.v[i].tag = Some(<<"p">>)

\* C2: markdown_to_blocks returns exactly the non-empty pieces of the
\* document split on the two-newline separator, in document order.
C2_NoEmptyBlocks ==
    op = "markdown_to_blocks" =>
        ret.val = SelectSeq(Split(arg, <<"\n", "\n">>), NonEmpty)

\* C3: every block returned by markdown_to_blocks has no leading and no
\* trailing whitespace.
C3_BlocksTrimmed ==
    op = "markdown_to_blocks" => \A i \in 1..Len(ret.val) : Trimmed(ret.val[i])

\* A line that holds a character other than whitespace and does not start
\* with '#': it satisfies the heading rule under no reading of it.
NotHeadingLine(line) == LStrip(line) # <<>> /\ line[1] # "#"

\* C4: a block that starts with '#' in which some line does not satisfy the
\* heading rule falls through to paragraph, so that block_to_block_type
\* returns one of the six block types.
C4_FallsThroughToParagraph ==
    (/\ op = "block_to_block_type"
     /\ StartsWith(arg, <<"#">>)
     /\ \E i \in 1..Len(Lines(arg)) : NotHeadingLine(Lines(arg)[i])) =>
        /\ ret.ok
        /\ ret.val \in SixBlockTypes
        /\ ret.val = EnumValue(BlockType.PARAGRAPH)

\* C5: a block is classified heading only if every line starts with 1 to 6
\* '#' characters immediately followed by a space.
C5_HeadingOnlyIfRule ==
    (op = "block_to_block_type" /\ ret = Return(EnumValue(BlockType.HEADING))) =>
        AllLines(arg, HeadingRule)

\* The classification C6 states for a block that does not start with '#'.
C6_Expected(block) ==
    IF StartsWith(block, Backticks) /\ EndsWith(block, Backticks) THEN BlockType.CODE
    ELSE IF AllLines(block, QuoteRule) THEN BlockType.QUOTE
    ELSE IF AllLines(block, UnorderedRule) THEN BlockType.UNORDERED_LIST
    ELSE IF AllLines(block, OrderedRule) THEN BlockType.ORDERED_LIST
    ELSE BlockType.PARAGRAPH

\* C6: for a block that does not start with '#', block_to_block_type returns
\* code, quote, unordered_list, ordered_list or paragraph by the first rule
\* of that list the block satisfies.
C6_FirstMatch ==
    (op = "block_to_block_type" /\ ~StartsWith(arg, <<"#">>)) =>
        ret = Return(EnumValue(C6_Expected(arg)))

\* C7 as stated: a text in which one of the delimiters occurs an odd number
\* of times makes text_to_textnodes fail with the unclosed-delimiter error.
C7_OddCountFails ==
    (op = "text_to_textnodes" /\ OddDelimiter(arg)) => ret = Raise(NotClosed)

\* C7 as amended: text_to_textnodes fails with the unclosed-delimiter error
\* whenever a delimiter pass finds its delimiter an odd number of times in a
\* node that is still plain when the pass runs.
C7_OddInPassFails ==
    (op = "text_to_textnodes" /\ OddInPass(arg)) => ret = Raise(NotClosed)

\* The code pass receives a formatted node next to a plain node with an odd
\* number of backticks, and the lexer has failed.
C7_Witness ==
    /\ op = "text_to_textnodes"
    /\ CodeInput(arg).ok
    /\ OddPlainNode(CodeInput(arg).val, <<Backtick>>)
    /\ \E i \in 1..Len(CodeInput(arg).val) : CodeInput(arg).val[i].text_type # TextType.TEXT
    /\ ret = Raise(NotClosed)

\* C8 as stated: a text with balanced delimiters lexes, and the texts of the
\* nodes concatenate to the text with the delimiter markers removed.
C8_BalancedRoundTrip ==
    (op = "text_to_textnodes" /\ ~OddDelimiter(arg)) =>
        ret.ok /\ ConcatText(ret.val) = StripDelims(arg)

NoLinkOrImage(nodes) ==
    \A i \in 1..Len(nodes) : nodes[i].text_type \notin {TextType.LINK, TextType.IMAGE}

\* No bold, italic or code node holds a '*' or a backtick.
CleanSpans(nodes) ==
    \A i \in 1..Len(nodes) :
        nodes[i].text_type = TextType.TEXT \/ StripDelims(nodes[i].text) = nodes[i].text

\* C8 as amended: when every delimiter pass finds its delimiter an even
\* number of times in each node still plain, text_to_textnodes succeeds; when
\* the result holds no link or image node, the concatenated node texts and
\* the original text are equal once every '*' and backtick is removed from
\* both, and the concatenation is the original without its '*' and backticks
\* when no formatted span holds one.
C8_PassRoundTrip ==
    (op = "text_to_textnodes" /\ ~OddInPass(arg)) =>
        /\ ret.ok
        /\ NoLinkOrImage(ret.val) =>
               /\ StripDelims(ConcatText(ret.val)) = StripDelims(arg)
               /\ CleanSpans(ret.val) => ConcatText(ret.val) = StripDelims(arg)

\* A text with plain text after a formatted span has been lexed.
C8_Witness ==
    /\ op = "text_to_textnodes"
    /\ ~OddInPass(arg)
    /\ ret.ok
    /\ NoLinkOrImage(ret.val)
    /\ CleanSpans(ret.val)
    /\ Len(ret.val) >= 2
    /\ ret.val[1].text_type \in {TextType.BOLD, TextType.ITALIC, TextType.CODE}
    /\ ret.val[Len(ret.val)].text_type = TextType.TEXT

\* The positions of the document where a line starts with '# '.
TitleStarts(doc) ==
    {i \in 1..(Len(doc) - 1) :
        (i = 1 \/ doc[i - 1] = "\n") /\ doc[i] = "#" /\ doc[i + 1] = " "}

\* The position after the end of the line that holds position i.
LineEnd(doc, i) ==
    LET ends == {j \in i..Len(doc) : doc[j] = "\n"}
    IN  IF ends = {} THEN Len(doc) + 1 ELSE CHOOSE j \in ends : \A k \in ends : j <= k

\* C9: extract_title returns what follows '# ' on the first line that starts
\* with '# ', wherever that line stands in the document, and raises the
\* no-title error if and only if no line starts with '# '.
C9_FirstTitleLine ==
    op = "extract_title" =>
        IF TitleStarts(arg) = {} THEN ret = Raise(NoTitle)
        ELSE LET i == CHOOSE k \in TitleStarts(arg) : \A j \in TitleStarts(arg) : k <= j
             IN  ret = Return(SubSeq(arg, i + 2, LineEnd(arg, i) - 1))

\* A title has been taken from a line inside a block that does not start
\* with '# '.
C9_Witness ==
    /\ op = "extract_title"
    /\ ret.ok
    /\ ret.val # <<>>
    /\ \A i \in 1..Len(markdown_to_blocks(arg)) :
           ~StartsWith(markdown_to_blocks(arg)[i], <<"#", " ">>)

\* C10: for a document with a title line and well-formed blocks,
\* generate_page completes and writes the template with the title and the
\* rendered HTML substituted to dest_path.
C10_PageWritten ==
    (op = "generate_page" /\ extract_title(arg).ok /\ WellFormedDoc(arg)) =>
        /\ ret.ok
        /\ dest.some
        /\ dest.v = Replace(Replace(template_text, TitlePlaceholder, extract_title(arg).val),
                            ContentPlaceholder, to_html(markdown_to_html_node(arg).val).val)

\* The strings of a list, concatenated in order.
RECURSIVE Concat(_)
Concat(list) == IF list = <<>> THEN <<>> ELSE list[1] \o Concat(Tail(list))

\* One attribute: a space, the key, an equals sign and the quoted value.
Attribute(prop) == <<" ">> \o prop[1] \o <<"=", "\"">> \o prop[2].v \o <<"\"">>

\* The attributes in insertion order; the empty string when there are none.
Attributes(props) ==
    IF props.some THEN Concat([i \in 1..Len(props.v) |-> Attribute(props.v[i])]) ELSE <<>>

Element(tag, props, inner) ==
    <<"<">> \o tag \o Attributes(props) \o <<">">> \o inner \o <<"<", "/">> \o tag \o <<">">>

\* Some node of the tree cannot be rendered: a leaf without a value, a
\* parent without a tag or without children.
RECURSIVE RenderFails(_)
RenderFails(node) ==
    IF node.kind = "leaf" THEN ~node.value.some
    ELSE \/ ~node.tag.some
         \/ ~node.children.some
         \/ \E i \in 1..Len(node.children.v) : RenderFails(node.children.v[i])

\* The text of a tree all of whose nodes can be rendered.
RECURSIVE Rendering(_)
Rendering(node) ==
    IF node.kind = "leaf"
    THEN IF node.tag.some THEN Element(node.tag.v, node.props, node.value.v) ELSE node.value.v
    ELSE Element(node.tag.v, node.props,
                 Concat([i \in 1..Len(node.children.v) |-> Rendering(node.children.v[i])]))

\* C11: ParentNode.to_html fails with 'no tag' when tag is unset, else with
\* 'no children' when children is unset, and fails when the render of any
\* descendant fails; otherwise it returns the opening tag with attributes,
\* the renderings of the children in list order and the closing tag, which
\* for an empty list of children is the empty element.
C11_ParentRender ==
    op = "ParentNode.to_html" =>
        IF ~arg.tag.some THEN ret = Raise(NoTag)
        ELSE IF ~arg.children.some THEN ret = Raise(NoChildren)
        ELSE IF \E i \in 1..Len(arg.children.v) : RenderFails(arg.children.v[i])
        THEN ~ret.ok /\ ret.err \in {NoValue, NoTag, NoChildren}
        ELSE /\ ret = Return(Element(arg.tag.v, arg.props,
                                     Concat([i \in 1..Len(arg.children.v) |->
                                                Rendering(arg.children.v[i])])))
             /\ arg.children.v = <<>> =>
                    ret.val = <<"<">> \o arg.tag.v \o Attributes(arg.props) \o <<">">>
                              \o <<"<", "/">> \o arg.tag.v \o <<">">>

\* A parent with two different children, the first a parent with children of
\* its own, has been rendered.
C11_Witness ==
    /\ op = "ParentNode.to_html"
    /\ ret.ok
    /\ arg.children.some
    /\ Len(arg.children.v) = 2
    /\ arg.children.v[1].kind = "parent"
    /\ Len(arg.children.v[1].children.v) = 2
    /\ Rendering(arg.children.v[1]) # Rendering(arg.children.v[2])

\* C12: LeafNode.to_html fails with 'no value' when the text is unset; when
\* the tag is unset it returns the text verbatim; otherwise it returns the
\* opening tag with the attributes, each as ' key="value"' in insertion
\* order and nothing when there are none, then the text and the closing tag.
C12_LeafRender ==
    op = "LeafNode.to_html" =>
        IF ~arg.value.some THEN ret = Raise(NoValue)
        ELSE IF ~arg.tag.some THEN ret = Return(arg.value.v)
        ELSE /\ ret = Return(<<"<">> \o arg.tag.v \o Attributes(arg.props) \o <<">">>
                             \o arg.value.v \o <<"<", "/">> \o arg.tag.v \o <<">">>)
             /\ (~arg.props.some \/ arg.props.v = <<>>) =>
                    ret.val = <<"<">> \o arg.tag.v \o <<">">> \o arg.value.v
                              \o <<"<", "/">> \o arg.tag.v \o <<">">>

\* An element with text and two attributes has been rendered.
C12_Witness ==
    /\ op = "LeafNode.to_html"
    /\ ret.ok
    /\ arg.tag.some
    /\ arg.value.v # <<>>
    /\ arg.props.some
    /\ Len(arg.props.v) = 2
    /\ arg.props.v[1][2] # arg.props.v[2][2]

\* A leaf with the given tag and text and without attributes.
IsLeaf(node, tag, text) ==
    /\ node.kind = "leaf"
    /\ node.tag = tag
    /\ node.value = Some(text)
    /\ ~node.children.some

\* C13: text_node_to_html_node maps plain to a leaf without tag, bold to b,
\* italic to i, code to code, link to a with the label as text and the
\* attribute href=url, image to img with empty text and the attributes
\* src=url and alt=label in that order; any other kind fails with 'Invalid
\* text type'.
C13_KindToLeaf ==
    op = "text_node_to_html_node" =>
        IF arg.text_type = TextType.TEXT
        THEN ret.ok /\ IsLeaf(ret.val, None, arg.text) /\ ~ret.val.props.some
        ELSE IF arg.text_type = TextType.BOLD
        THEN ret.ok /\ IsLeaf(ret.val, Some(<<"b">>), arg.text) /\ ~ret.val.props.some
        ELSE IF arg.text_type = TextType.ITALIC
        THEN ret.ok /\ IsLeaf(ret.val, Some(<<"i">>), arg.text) /\ ~ret.val.props.some
        ELSE IF arg.text_type = TextType.CODE
        THEN ret.ok /\ IsLeaf(ret.val, Some(<<"c", "o", "d", "e">>), arg.text)
             /\ ~ret.val.props.some
        ELSE IF arg.text_type = TextType.LINK
        THEN ret.ok /\ IsLeaf(ret.val, Some(<<"a">>), arg.text)
             /\ ret.val.props = Some(<<<<<<"h", "r", "e", "f">>, arg.url>>>>)
        ELSE IF arg.text_type = TextType.IMAGE
        THEN ret.ok /\ IsLeaf(ret.val, Some(<<"i", "m", "g">>), <<>>)
             /\ ret.val.props.some
             /\ Len(ret.val.props.v) = 2
             /\ ret.val.props.v[1] = <<<<"s", "r", "c">>, arg.url>>
             /\ ret.val.props.v[2] = <<<<"a", "l", "t">>, Some(arg.text)>>
        ELSE ret = Raise(InvalidTextType)

\* An image node with a label and a url has been converted.
C13_Witness ==
    /\ op = "text_node_to_html_node"
    /\ arg.text_type = TextType.IMAGE
    /\ arg.text # <<>>
    /\ arg.url = Some(<<"u">>)
    /\ ret.ok
    /\ ret.val.tag = Some(<<"i", "m", "g">>)

\* The number of '#' characters the block starts with.
LeadingHashes(block) ==
    Cardinality({n \in 1..Len(block) : \A i \in 1..n : block[i] = "#"})

\* C14: whenever process_heading succeeds, the tag of the returned Parent is
\* h followed by the number of leading '#' of the block, that number is
\* between 1 and 6, a space follows the marker, and the children are the
\* inline lexing of the block without the marker and that one space.  Stated
\* here for the blocks that start with '#', the only ones with a marker.
C14_HeadingLevel ==
    (op = "process_heading" /\ ret.ok /\ StartsWith(arg, <<"#">>)) =>
        LET level == LeadingHashes(arg)
        IN  /\ 1 <= level /\ level <= 6
            /\ ret.val.kind = "parent"
            /\ ret.val.tag = Some(<<"h", Digit(level)>>)
            /\ arg[level + 1] = " "
            /\ Return(ret.val.children.v) = text_to_children(DropFirst(arg, level + 1))

\* The line matches the item-marker pattern of the list: '*' or '-' and a
\* whitespace character, or a digit, a period and a whitespace character.
ItemMarker(call, line) ==
    IF call.list_type = <<"u", "l">>
    THEN Len(line) >= 2 /\ line[1] \in {"*", "-"} /\ line[2] \in Whitespace
    ELSE Len(line) >= 3 /\ line[1] \in Digits /\ line[2] = "." /\ line[3] \in Whitespace

\* The line without its prefix: 2 characters for unordered, 3 for ordered.
ItemText(call, line) == DropFirst(line, IF call.list_type = <<"u", "l">> THEN 2 ELSE 3)

\* The inline lexing of the item succeeds.
ItemLexes(call, line) == text_to_children(ItemText(call, line)).ok

\* ret is a Parent tagged with the list type that holds one li Parent per
\* line of the block, in order, each with the inline lexing of its item.
ListOfItems(call) ==
    /\ ret.ok
    /\ ret.val.kind = "parent"
    /\ ret.val.tag = Some(call.list_type)
    /\ Len(ret.val.children.v) = Len(Lines(arg))
    /\ \A i \in 1..Len(Lines(arg)) :
           /\ ret.val.children.v[i].kind = "parent"
           /\ ret.val.children.v[i].tag = Some(<<"l", "i">>)
           /\ Return(ret.val.children.v[i].children.v)
                  = text_to_children(ItemText(call, Lines(arg)[i]))

\* C15 as stated: process_list fails with 'Invalid list block' if any line
\* does not match the item-marker pattern; otherwise it returns a Parent
\* tagged ul or ol with one li Parent per line, in source order, each holding
\* the inline lexing of the line without its prefix.
C15_ListItems ==
    \A call \in ListCalls :
        op = call.name =>
            IF \E i \in 1..Len(Lines(arg)) : ~ItemMarker(call, Lines(arg)[i])
            THEN ret = Raise(InvalidList)
            ELSE (\A i \in 1..Len(Lines(arg)) : ItemLexes(call, Lines(arg)[i]))
                     => ListOfItems(call)

\* The lines process_list stops at: those that do not match the pattern and
\* those whose item does not lex.
StopLines(call, block) ==
    {i \in 1..Len(Lines(block)) :
        ~ItemMarker(call, Lines(block)[i]) \/ ~ItemLexes(call, Lines(block)[i])}

\* C15 as amended: process_list takes the lines in order and stops at the
\* first line that does not match the pattern, with 'Invalid list block', or
\* whose item does not lex, with the error of the lexer; when every line
\* matches and lexes it returns the list of li Parents.
C15_ListItemsInOrder ==
    \A call \in ListCalls :
        op = call.name =>
            IF StopLines(call, arg) = {} THEN ListOfItems(call)
            ELSE LET i == CHOOSE k \in StopLines(call, arg) :
                              \A j \in StopLines(call, arg) : k <= j
                 IN  IF ~ItemMarker(call, Lines(arg)[i]) THEN ret = Raise(InvalidList)
                     ELSE ret = Raise(NotClosed)

\* An ordered list of two items with different contents has been compiled.
C15_Witness ==
    /\ op = "process_list(ol)"
    /\ ret.ok
    /\ Len(ret.val.children.v) = 2
    /\ ret.val.children.v[1] # ret.val.children.v[2]
    /\ ret.val.children.v[2].children.v # <<>>

\* The block starts with three backticks and ends with three backticks.
Fenced(block) ==
    /\ Len(block) >= 3
    /\ \A i \in 1..3 : block[i] = Backtick
    /\ \A i \in (Len(block) - 2)..Len(block) : block[i] = Backtick

\* The block without its first three and its last three characters.
Unfenced(block) == [i \in 1..(IF Len(block) > 6 THEN Len(block) - 6 ELSE 0) |-> block[i + 3]]

\* text[i..j] is text without the whitespace around it.
IsTrimOf(text, i, j) ==
    /\ \A k \in 1..(i - 1) : text[k] \in Whitespace
    /\ \A k \in (j + 1)..Len(text) : text[k] \in Whitespace
    /\ Trimmed(SubSeq(text, i, j))

\* ret is what compiling content under the tag gives: the Parent that holds
\* the inline lexing of content, or the error of the lexer.
CompiledAs(tag, content) ==
    IF text_to_children(content).ok
    THEN /\ ret.ok
         /\ ret.val.kind = "parent"
         /\ ret.val.tag = Some(tag)
         /\ ret.val.children = Some(text_to_children(content).val)
    ELSE ~ret.ok /\ ret.err = text_to_children(content).err

C17_UrlIffLinkOrImage ==
    (op = "text_to_textnodes" /\ ret.ok) =>
        \A i \in 1..Len(ret.val) :
            ret.val[i].url.some <=> ret.val[i].text_type \in {TextType.LINK, TextType.IMAGE}

\* A text has been lexed into a node with a url and a node without.
C17_Witness ==
    /\ op = "text_to_textnodes"
    /\ ret.ok
    /\ \E i, j \in 1..Len(ret.val) :
           /\ ret.val[i].text_type \in {TextType.LINK, TextType.IMAGE}
           /\ ret.val[i].url.some
           /\ ret.val[j].text_type \notin {TextType.LINK, TextType.IMAGE}
           /\ ~ret.val[j].url.some

\* The markdown a node was lexed from, for a text without '*' and backtick.
NodeSyntax(node) ==
    IF node.text_type = TextType.LINK THEN link_syntax(<<node.text, node.url.v>>)
    ELSE IF node.text_type = TextType.IMAGE THEN image_syntax(<<node.text, node.url.v>>)
    ELSE node.text

\* C20: text_to_textnodes never raises 'image section not closed' nor 'link
\* section not closed': every image and link that is found splits the text
\* that remains in two at its own place, so that the nodes, written back as
\* markdown, give the text again, and no link node follows a plain node that
\* ends with '!'.
C20_NoMalformedSpan ==
    op = "text_to_textnodes" =>
        /\ ret.err \notin {ImageNotClosed, LinkNotClosed}
        /\ ret.ok =>
               /\ \A i \in 2..Len(ret.val) :
                      (ret.val[i].text_type = TextType.LINK
                       /\ ret.val[i - 1].text_type = TextType.TEXT)
                          => ret.val[i - 1].text[Len(ret.val[i - 1].text)] # "!"
               /\ StripDelims(arg) = arg =>
                      Concat([i \in 1..Len(ret.val) |-> NodeSyntax(ret.val[i])]) = arg

\* A text that holds the same link twice, once as the destination of an
\* image marker, has been lexed into an image and a link.
C20_Witness ==
    /\ op = "text_to_textnodes"
    /\ ret.ok
    /\ Len(ret.val) = 2
    /\ ret.val[1].text_type = TextType.IMAGE
    /\ ret.val[2].text_type = TextType.LINK
    /\ ret.val[1].text = ret.val[2].text
    /\ ret.val[1].url = ret.val[2].url

\* C19: block_to_html_node never fails with 'Invalid block type': whatever
\* block_to_block_type returns for the block is matched by one of the six
\* cases of the dispatch, so the default case is not taken.
C19_DispatchTotal ==
    (op = "block_to_html_node" /\ block_to_block_type(arg).ok) =>
        /\ \E k \in DOMAIN BlockType : block_to_block_type(arg).val = BlockType[k]
        /\ ret # Raise(InvalidBlockType)

\* The entries of a file system below a path, named relative to that path.
Rel(files, path) ==
    {[e EXCEPT !.path = SubSeq(e.path, Len(path) + 1, Len(e.path))] :
        e \in {x \in files : IsPrefix(path, x.path)}}

\* C18: when the source is a directory, copy_directory changes nothing
\* before delete_directory has run, no destination exists any more when the
\* first recursive_copy starts, and once copy_directory has returned the
\* tree below the destination is the tree below the source as it was at
\* the call: the same directories, the same files with the same data, and
\* none of the files the old destination held.
C18_MirrorAfterDelete ==
    isdir(arg.files, arg.src) =>
        /\ op \in {"start", "delete_directory"} => fs = arg.files
        /\ (op = "recursive_copy" /\ Len(calls) = 1 /\ ~calls[1].entered) =>
               /\ ~exists(fs, arg.dest)
               /\ \A e \in fs : e \in arg.files
        /\ op = "done" =>
               /\ Rel(fs, arg.dest) = Rel(arg.files, arg.src)
               /\ \A e \in Rel(fs, arg.dest) : e.data # "old"

\* copy_directory has returned for a source directory with a file in a
\* subdirectory, over an old destination that held a file the source has
\* not: the nested file is in the destination.
C18_Witness ==
    /\ op = "done"
    /\ isdir(arg.files, arg.src)
    /\ \E e \in Rel(arg.files, arg.dest) :
           ~e.isdir /\ e \notin Rel(arg.files, arg.src)
    /\ \E e \in Rel(fs, arg.dest) : Len(e.path) = 2 /\ ~e.isdir

\* The line starts with the quote marker: '>' followed by a space.
QuoteMarked(line) == StartsWith(line, <<">", " ">>)

\* The lines of a quote block without their markers.
Unquoted(lines) == [i \in DOMAIN lines |-> DropFirst(lines[i], 2)]

\* C21: process_quote raises 'Invalid quote block' if some line of the block
\* does not start with '> '; when it returns, every line starts with '> ',
\* and the node is a Parent tagged 'blockquote' whose children are the
\* inline lexing of the lines, each without those two characters, joined by
\* one space.
C21_QuoteMarker ==
    op = "process_quote" =>
        LET lines == Split(arg, <<"\n">>)
        IN  /\ (\E i \in DOMAIN lines : ~QuoteMarked(lines[i])) => ret = Raise(InvalidQuote)
            /\ ret.ok =>
                   /\ \A i \in DOMAIN lines : QuoteMarked(lines[i])
                   /\ ret.val.kind = "parent"
                   /\ ret.val.tag = Some(<<"b", "l", "o", "c", "k", "q", "u", "o", "t", "e">>)
                   /\ Return(ret.val.children.v) =
                          text_to_children(Join(<<" ">>, Unquoted(lines)))

\* The block is a heading marker with no content after it: a run of '#',
\* followed by a space or by nothing.
MarkerOnly(block) ==
    /\ LeadingHashes(block) >= 1
    /\ \/ Len(block) = LeadingHashes(block)
       \/ block = Hashes(LeadingHashes(block)) \o <<" ">>

\* The block is a heading marker, a space and at least one more character.
MarkerAndContent(block) ==
    /\ LeadingHashes(block) >= 1
    /\ Len(block) > LeadingHashes(block) + 1
    /\ block[LeadingHashes(block) + 1] = " "

\* C22: process_heading fails with 'Invalid heading block' exactly when the
\* block is a heading marker with no content after it, and succeeds for
\* every block that is a marker, a space and at least one content character.
\* Stated here for the blocks that start with '#', the only ones with a
\* marker.
C22_MarkerOnlyFails ==
    (op = "process_heading" /\ StartsWith(arg, <<"#">>)) =>
        /\ ret = Raise(InvalidHeading) <=> MarkerOnly(arg)
        /\ MarkerAndContent(arg) => ret.ok

\* C22, amended: process_heading fails with 'Invalid heading block' exactly
\* when the block is a run of '#', none included, followed by at most one
\* more character of any kind; for a marker, a space and at least one
\* content character it returns a Parent when the content lexes and fails
\* with the error of the lexer when it does not.
C22_ShortBlockFails ==
    op = "process_heading" =>
        /\ ret = Raise(InvalidHeading) <=> Len(arg) <= LeadingHashes(arg) + 1
        /\ MarkerOnly(arg) => ret = Raise(InvalidHeading)
        /\ MarkerAndContent(arg) =>
               LET children == text_to_children(DropFirst(arg, LeadingHashes(arg) + 1))
               IN  /\ ret.ok <=> children.ok
                   /\ ~ret.ok => ret = children /\ ret.err \in {NotClosed, ImageNotClosed, LinkNotClosed}

\* process_heading has refused a marker followed by a character that is
\* not a space.
C22_Witness ==
    /\ op = "process_heading"
    /\ ret = Raise(InvalidHeading)
    /\ StartsWith(arg, <<"#">>)
    /\ ~MarkerOnly(arg)
    /\ arg[Len(arg)] = "a"

\* The kind of the node is plain.
IsPlain(node) == node.text_type = TextType.TEXT

\* What the pass named name returns for a list of nodes.
PassResult(name, nodes) ==
    IF name = "split_nodes_image" THEN split_nodes_image(nodes)
    ELSE IF name = "split_nodes_link" THEN split_nodes_link(nodes)
    ELSE LET call == CHOOSE c \in DelimiterCalls : c.name = name
         IN  split_nodes_delimiter(nodes, call.delimiter, call.text_type)

\* The nodes of the output that stand for node i of the input: the node
\* itself when it is not plain, what the pass makes of it alone when it is.
Piece(name, node) == IF IsPlain(node) THEN PassResult(name, <<node>>).val ELSE <<node>>

\* s is a subsequence of t from position i of s and position j of t on.
RECURSIVE IsSubSeqFrom(_, _, _, _)
IsSubSeqFrom(s, t, i, j) ==
    IF i > Len(s) THEN TRUE
    ELSE IF j > Len(t) THEN FALSE
    ELSE IF s[i] = t[j] THEN IsSubSeqFrom(s, t, i + 1, j + 1)
    ELSE IsSubSeqFrom(s, t, i, j + 1)

PassNames == {call.name : call \in DelimiterCalls} \cup {"split_nodes_image", "split_nodes_link"}

PassKept ==
    (op \in PassNames /\ ret.ok) =>
        /\ IsSubSeqFrom(SelectSeq(arg, LAMBDA node : ~IsPlain(node)), ret.val, 1, 1)
        /\ \A i \in DOMAIN arg : IsPlain(arg[i]) => PassResult(op, <<arg[i]>>).ok
        /\ ret.val = Concat([i \in DOMAIN arg |-> Piece(op, arg[i])])

\* C23: when a lexer pass returns, every node of the input that is not
\* plain is in the output as it was, in the same relative order, and the
\* output is, position by position of the input, that node when it is not
\* plain and what the pass makes of that node alone when it is plain; the
\* call leaves the input list and its nodes as they were.
C23_OnlyPlainConsumed == [](PassKept) /\ [][op' \in PassNames => arg' = arg]_vars

\* A pass has returned for a list in which a node that is not plain, with a
\* text that holds syntax, stands between two plain nodes that were split.
C23_Witness ==
    /\ op \in PassNames
    /\ ret.ok
    /\ Len(arg) = 3
    /\ IsPlain(arg[1]) /\ ~IsPlain(arg[2]) /\ IsPlain(arg[3])
    /\ Len(Piece(op, arg[1])) > 1
    /\ Len(Piece(op, arg[3])) > 1
    /\ \E c \in {"*", "["} : arg[2].text[1] = c

\* Some block of the document fails to compile.
SomeBlockFails(markdown) ==
    \E i \in DOMAIN markdown_to_blocks(markdown) :
        ~block_to_html_node(markdown_to_blocks(markdown)[i]).ok

\* One of the three stages of generate_page before the write fails on the
\* document: the title, the node tree or its rendering.
StageFails(markdown) ==
    \/ ~extract_title(markdown).ok
    \/ ~markdown_to_html_node(markdown).ok
    \/ ~to_html(markdown_to_html_node(markdown).val).ok

\* C24: a call of generate_page on a document for which extract_title,
\* markdown_to_html_node or to_html fails raises and leaves the destination
\* file as it was, absent or with its old content; the destination changes
\* only in a call that returns.  markdown_to_html_node on a document with a
\* block that fails to compile raises and returns no tree.
C24_NoPartialOutput ==
    /\ [][op' = "generate_page" =>
            /\ StageFails(arg) => (~ret'.ok /\ dest' = dest)
            /\ dest' # dest => ret'.ok]_vars
    /\ []((op = "markdown_to_html_node" /\ SomeBlockFails(arg)) =>
            (~ret.ok /\ ret.val = <<>>))

\* generate_page has found the title of the document, has failed in a
\* later stage, and the old destination file is still there.
C24_Witness ==
    /\ op = "generate_page"
    /\ extract_title(arg).ok
    /\ ~ret.ok
    /\ ret = markdown_to_html_node(arg)
    /\ dest = Some(OldDest)

\* C25: for every non-empty block, block_to_block_type returns, and what
\* it returns is one of the six classifications; it raises no exception.
C25_ClassifierTotal ==
    (op = "block_to_block_type" /\ arg # <<>>) =>
        /\ ret.ok
        /\ \E k \in DOMAIN BlockType : ret.val = EnumValue(BlockType[k])

====
